---- MODULE Spec2Model ----
(***************************************************************************)
(* Model of the three example scripts of cedadev/opendap-python-example:   *)
(*   remote_nc_with_token.py   (download token, cached in ~/.cedatoken)    *)
(*   remote_nc_with_cert.py    (short-lived certificate + ~/.dodsrc)       *)
(*   simple_file_downloader.py (short-lived certificate, plain download)   *)
(* One behaviour is one invocation of one script (or one direct call of    *)
(* one of its functions) against an arbitrary state of the files on disk.  *)
(***************************************************************************)
EXTENDS Integers, Sequences, FiniteSets, TLC

VARIABLES
    script,        \* which script runs: "token", "cert" or "downloader"
    entry,         \* "main", or the function a caller calls directly
    pc,            \* position of the invocation
    now,           \* the clock reading the invocation takes
    env,           \* CEDA_USERNAME / CEDA_PASSWORD present in os.environ
    fs,            \* files on disk: token cache, credentials.pem, .dodsrc, trust roots
    fs0,           \* the files as they were when the invocation started
    calls,         \* network requests issued so far, in order
    resp,          \* the token service's answer to the POST, when one was made
    svc,           \* outcome of the trust-root and certificate services
    writes,        \* number of writes to each file in this invocation
    force,         \* the force argument of setup_credentials
    min_lifetime,  \* the min_lifetime argument of cert_is_valid
    tokRet,        \* what get_token returned
    setupRet,      \* what setup_credentials returned
    validRet,      \* what cert_is_valid returned
    err            \* the exception that ended the invocation, "" when none

vars == <<script, entry, pc, now, env, fs, fs0, calls, resp, svc, writes,
          force, min_lifetime, tokRet, setupRet, validRet, err>>

----------------------------------------------------------------------------
(* Bounds *)

MaxTime == 2
MaxLifetime == 2

Times == 0..MaxTime
Lifetimes == 0..MaxLifetime

----------------------------------------------------------------------------
(* Values *)

\* Python's None for a token (a str) and for a datetime.
NoneTok == "<None>"
NoneTime == -1

\* Token strings; "" is a str that is falsy.
Tokens == {"", "tokA", "tokB"}

\* The text of an "expires" field: a string in the format
\* %Y-%m-%dT%H:%M:%S.%f%z naming the instant t, a string in no such format, or no
\* string at all (key absent / null).
ExpStr(t) == [fmt |-> "iso", t |-> t]
BadExpStr == [fmt |-> "bad", t |-> 0]
NoExpStr == [fmt |-> "none", t |-> 0]
ExpStrs == {ExpStr(t) : t \in Times} \cup {BadExpStr, NoExpStr}

\* A text, as json.loads sees it: not JSON at all, JSON that is no object, or
\* an object with (maybe) access_token, (maybe) expires, and maybe other keys.
InvalidText == [json |-> "invalid", tok |-> NoneTok, exp |-> NoExpStr, extra |-> FALSE]
NonObjectText == [json |-> "other", tok |-> NoneTok, exp |-> NoExpStr, extra |-> FALSE]
ObjectTexts == [json : {"object"}, tok : Tokens \cup {NoneTok}, exp : ExpStrs,
                extra : BOOLEAN]
Texts == {InvalidText, NonObjectText} \cup ObjectTexts

\* The token cache file: absent, or a file holding a text.
AbsentFile == [json |-> "absent", tok |-> NoneTok, exp |-> NoExpStr, extra |-> FALSE]
CacheFiles == {AbsentFile} \cup Texts

\* The body of a 200 answer of the token service: a JSON object with a
\* non-empty access_token and a well-formed expires (the service's interface).
IssuedTexts == {b \in ObjectTexts : b.tok \in Tokens \ {""} /\ b.exp.fmt = "iso"}

HTTP_OK == 200
Statuses == {HTTP_OK, 401, 500}
\* The body of any other answer: an error page, which the script never parses.
ErrorTexts == {InvalidText, NonObjectText}
NoResp == [status |-> 0, body |-> AbsentFile]

\* credentials.pem: missing, bytes that are no PEM certificate, or a
\* certificate with its validity window.
MissingCred == [kind |-> "missing", nvb |-> 0, nva |-> 0]
GarbageCred == [kind |-> "garbage", nvb |-> 0, nva |-> 0]
Certs == [kind : {"cert"}, nvb : Times, nva : Times]
CredFiles == {MissingCred, GarbageCred} \cup Certs

\* ~/.dodsrc: absent, some earlier content, or what write_dods_file_contents writes.
DodsFiles == {"absent", "other", "written"}

Truthy(token) == token # NoneTok /\ token # ""

----------------------------------------------------------------------------
(* remote_nc_with_token.py *)

Raise(e) == [raised |-> e, token |-> NoneTok, expires |-> NoneTime]

\* datetime.strptime(s, "%Y-%m-%dT%H:%M:%S.%f%z") on a well-formed string.
strptime(s) == s.t

load_cached_token(f) ==
    IF f.json = "absent" THEN [raised |-> "", token |-> NoneTok, expires |-> NoneTime]
    ELSE IF f.json = "invalid" THEN Raise("JSONDecodeError")
    ELSE IF f.json = "other" THEN Raise("AttributeError")
    ELSE IF f.exp.fmt = "none" THEN Raise("TypeError")
    ELSE IF f.exp.fmt = "bad" THEN Raise("ValueError")
    ELSE [raised |-> "", token |-> f.tok, expires |-> strptime(f.exp)]

\* The condition of line 89: `not token or expires < now`.
needs_refresh(token, expires, n) ==
    IF ~Truthy(token) THEN TRUE ELSE expires < n

\* get_token with the cache write moved out of the status test: the body of
\* any answer is stored.
get_token_writes_any_answer(f, n, status, body) ==
    LET c == load_cached_token(f) IN
    IF c.raised # ""
    THEN [raised |-> c.raised, token |-> NoneTok, expires |-> NoneTime,
          cache |-> f, posts |-> 0, written |-> 0]
    ELSE IF needs_refresh(c.token, c.expires, n)
    THEN [raised |-> "",
          token |-> IF status = HTTP_OK THEN body.tok ELSE c.token,
          expires |-> c.expires, cache |-> body, posts |-> 1, written |-> 1]
    ELSE [raised |-> "", token |-> c.token, expires |-> c.expires,
          cache |-> f, posts |-> 0, written |-> 0]

\* get_token on cache file f at time n, the token service answering (status,
\* body) if it is asked.
get_token(f, n, status, body) ==
    LET c == load_cached_token(f) IN
    IF c.raised # ""
    THEN [raised |-> c.raised, token |-> NoneTok, expires |-> NoneTime,
          cache |-> f, posts |-> 0, written |-> 0]
    ELSE IF needs_refresh(c.token, c.expires, n)
    THEN IF status = HTTP_OK
         THEN [raised |-> "", token |-> body.tok, expires |-> c.expires,
               cache |-> body, posts |-> 1, written |-> 1]
         ELSE [raised |-> "", token |-> c.token, expires |-> c.expires,
               cache |-> f, posts |-> 1, written |-> 0]
    ELSE [raised |-> "", token |-> c.token, expires |-> c.expires,
          cache |-> f, posts |-> 0, written |-> 0]

NoTokRet == [called |-> FALSE, token |-> NoneTok, expires |-> NoneTime]

\* line 169: token, expires = get_token()
token_main_get_token ==
    /\ script = "token" /\ pc = "start"
    /\ \E status \in Statuses :
       \E body \in (IF status = HTTP_OK THEN IssuedTexts ELSE ErrorTexts) :
          LET r == get_token(fs.cache, now, status, body) IN
          /\ fs' = [fs EXCEPT !.cache = r.cache]
          /\ writes' = [writes EXCEPT !.cache = r.written]
          /\ calls' = IF r.posts = 1 THEN Append(calls, "POST token") ELSE calls
          /\ resp' = IF r.posts = 1 THEN [status |-> status, body |-> body] ELSE NoResp
          /\ IF r.raised # ""
             THEN /\ pc' = "crashed" /\ err' = r.raised /\ tokRet' = tokRet
             ELSE /\ pc' = "got_token" /\ err' = err
                  /\ tokRet' = [called |-> TRUE, token |-> r.token, expires |-> r.expires]
    /\ UNCHANGED <<script, entry, now, env, fs0, svc, force, min_lifetime,
                   setupRet, validRet>>

\* lines 170-202: with a token, open_dataset issues the data GET; a non-200
\* answer makes open_dataset return None and dataset.ncattrs() raise.
token_main_open_dataset ==
    /\ script = "token" /\ pc = "got_token"
    /\ Truthy(tokRet.token)
    /\ calls' = Append(calls, "GET data")
    /\ \E status \in Statuses :
          IF status = HTTP_OK
          THEN pc' = "done" /\ err' = err
          ELSE pc' = "crashed" /\ err' = "AttributeError"
    /\ UNCHANGED <<script, entry, now, env, fs, fs0, resp, svc, writes, force,
                   min_lifetime, tokRet, setupRet, validRet>>

\* lines 204-212: without a token the script prints a message and ends.
token_main_abort ==
    /\ script = "token" /\ pc = "got_token"
    /\ ~Truthy(tokRet.token)
    /\ pc' = "aborted"
    /\ UNCHANGED <<script, entry, now, env, fs, fs0, calls, resp, svc, writes,
                   force, min_lifetime, tokRet, setupRet, validRet, err>>

----------------------------------------------------------------------------
(* remote_nc_with_cert.py *)

\* cert_is_valid with >= in place of > in the not_valid_after comparison.
cert_is_valid_inclusive(f, n, m) ==
    IF f.kind = "missing" THEN FALSE
    ELSE IF f.kind = "garbage" THEN FALSE
    ELSE f.nvb <= n /\ f.nva >= n + m

\* cert_is_valid on the file f at local time n with margin m: IOError and
\* ValueError are caught and give False.
cert_is_valid(f, n, m) ==
    IF f.kind = "missing" THEN FALSE
    ELSE IF f.kind = "garbage" THEN FALSE
    ELSE f.nvb <= n /\ f.nva > n + m

\* write_dods_file_contents: open(DODS_FILE_PATH, 'w') and write the four lines.
write_dods_file_contents(d) == "written"

\* setup_credentials(force) on the files f at time n; trOk and certOk say
\* whether the trust-root and the certificate service answer, issued is the
\* certificate the service issues. The result says what the call did: its
\* return value or exception, the requests it made, the files after it, the
\* writes, and the services' outcomes.
setup_credentials(frc, f, n, trOk, certOk, issued) ==
    IF f.dods # "absent" /\ ~frc /\ cert_is_valid(f.cred, n, 0)
    THEN [ret |-> "False", raised |-> "", calls |-> <<>>, fs |-> f,
          wcred |-> 0, wdods |-> 0, tr |-> "none", cert |-> "none"]
    ELSE IF ~trOk
    THEN [ret |-> "none", raised |-> "ServiceError", calls |-> <<"trustroots">>,
          fs |-> f, wcred |-> 0, wdods |-> 0, tr |-> "fail", cert |-> "none"]
    ELSE IF ~certOk
    THEN [ret |-> "none", raised |-> "ServiceError",
          calls |-> <<"trustroots", "certificate">>,
          fs |-> [f EXCEPT !.trust = TRUE],
          wcred |-> 0, wdods |-> 0, tr |-> "ok", cert |-> "fail"]
    ELSE [ret |-> "True", raised |-> "",
          calls |-> <<"trustroots", "certificate">>,
          fs |-> [f EXCEPT !.trust = TRUE, !.cred = issued,
                           !.dods = write_dods_file_contents(f.dods)],
          wcred |-> 1, wdods |-> 1, tr |-> "ok", cert |-> "ok"]

\* The state change of a call of setup_credentials with outcome r.
ApplySetup(r) ==
    /\ fs' = r.fs
    /\ writes' = [writes EXCEPT !.cred = r.wcred, !.dods = r.wdods]
    /\ calls' = calls \o r.calls
    /\ svc' = [tr |-> r.tr, cert |-> r.cert]
    /\ setupRet' = r.ret

\* lines 41-42: the module reads both variables from os.environ as it loads.
cert_import ==
    /\ script = "cert" /\ pc = "start"
    /\ IF env.user /\ env.pass
       THEN pc' = "imported" /\ err' = err
       ELSE pc' = "crashed" /\ err' = "KeyError"
    /\ UNCHANGED <<script, entry, now, env, fs, fs0, calls, resp, svc, writes,
                   force, min_lifetime, tokRet, setupRet, validRet>>

\* line 191: main calls setup_credentials(force=False); an exception leaves main.
cert_main_setup_credentials ==
    /\ script = "cert" /\ entry = "main" /\ pc = "imported"
    /\ \E trOk \in BOOLEAN, certOk \in BOOLEAN, issued \in Certs :
          LET r == setup_credentials(FALSE, fs, now, trOk, certOk, issued) IN
          /\ ApplySetup(r)
          /\ IF r.raised # ""
             THEN pc' = "crashed" /\ err' = r.raised
             ELSE pc' = "setup_done" /\ err' = err
    /\ UNCHANGED <<script, entry, now, env, fs0, resp, force, min_lifetime,
                   tokRet, validRet>>

\* line 192: get_nc_dataset opens the dataset at the URL.
cert_main_get_nc_dataset ==
    /\ script = "cert" /\ entry = "main" /\ pc = "setup_done"
    /\ calls' = Append(calls, "data")
    /\ pc' = "done"
    /\ UNCHANGED <<script, entry, now, env, fs, fs0, resp, svc, writes, force,
                   min_lifetime, tokRet, setupRet, validRet, err>>

\* A caller that imported the module calls setup_credentials(force) itself.
cert_call_setup_credentials ==
    /\ script = "cert" /\ entry = "setup_credentials" /\ pc = "imported"
    /\ \E frc \in BOOLEAN, trOk \in BOOLEAN, certOk \in BOOLEAN, issued \in Certs :
          LET r == setup_credentials(frc, fs, now, trOk, certOk, issued) IN
          /\ ApplySetup(r)
          /\ force' = frc
          /\ IF r.raised # ""
             THEN pc' = "crashed" /\ err' = r.raised
             ELSE pc' = "returned" /\ err' = err
    /\ UNCHANGED <<script, entry, now, env, fs0, resp, min_lifetime, tokRet,
                   validRet>>

\* A caller that imported the module calls cert_is_valid(path, min_lifetime).
cert_call_cert_is_valid ==
    /\ script = "cert" /\ entry = "cert_is_valid" /\ pc = "imported"
    /\ \E m \in Lifetimes :
          /\ min_lifetime' = m
          /\ validRet' = IF cert_is_valid(fs.cred, now, m) THEN "True" ELSE "False"
    /\ pc' = "returned"
    /\ UNCHANGED <<script, entry, now, env, fs, fs0, calls, resp, svc, writes,
                   force, tokRet, setupRet, err>>

----------------------------------------------------------------------------
(* simple_file_downloader.py *)

dl_cert_is_valid(f, n, m) ==
    IF f.kind = "missing" THEN FALSE
    ELSE IF f.kind = "garbage" THEN FALSE
    ELSE f.nvb <= n /\ f.nva > n + m

\* The downloader's setup_credentials with the os.environ lookups placed after
\* the trust-root fetch.
dl_setup_credentials_late_env(e, f, n, trOk, certOk, issued) ==
    IF dl_cert_is_valid(f.cred, n, 0)
    THEN [ret |-> "False", raised |-> "", calls |-> <<>>, fs |-> f,
          wcred |-> 0, wdods |-> 0, tr |-> "none", cert |-> "none"]
    ELSE IF ~trOk
    THEN [ret |-> "none", raised |-> "ServiceError", calls |-> <<"trustroots">>,
          fs |-> f, wcred |-> 0, wdods |-> 0, tr |-> "fail", cert |-> "none"]
    ELSE IF ~(e.user /\ e.pass)
    THEN [ret |-> "none", raised |-> "KeyError", calls |-> <<"trustroots">>,
          fs |-> [f EXCEPT !.trust = TRUE],
          wcred |-> 0, wdods |-> 0, tr |-> "ok", cert |-> "none"]
    ELSE IF ~certOk
    THEN [ret |-> "none", raised |-> "ServiceError",
          calls |-> <<"trustroots", "certificate">>,
          fs |-> [f EXCEPT !.trust = TRUE],
          wcred |-> 0, wdods |-> 0, tr |-> "ok", cert |-> "fail"]
    ELSE [ret |-> "True", raised |-> "",
          calls |-> <<"trustroots", "certificate">>,
          fs |-> [f EXCEPT !.trust = TRUE, !.cred = issued],
          wcred |-> 1, wdods |-> 0, tr |-> "ok", cert |-> "ok"]

\* setup_credentials() of the downloader: no force argument, no .dodsrc; the
\* environment is read only once the certificate is found not to be in date.
dl_setup_credentials(e, f, n, trOk, certOk, issued) ==
    IF dl_cert_is_valid(f.cred, n, 0)
    THEN [ret |-> "False", raised |-> "", calls |-> <<>>, fs |-> f,
          wcred |-> 0, wdods |-> 0, tr |-> "none", cert |-> "none"]
    ELSE IF ~(e.user /\ e.pass)
    THEN [ret |-> "none", raised |-> "KeyError", calls |-> <<>>, fs |-> f,
          wcred |-> 0, wdods |-> 0, tr |-> "none", cert |-> "none"]
    ELSE IF ~trOk
    THEN [ret |-> "none", raised |-> "ServiceError", calls |-> <<"trustroots">>,
          fs |-> f, wcred |-> 0, wdods |-> 0, tr |-> "fail", cert |-> "none"]
    ELSE IF ~certOk
    THEN [ret |-> "none", raised |-> "ServiceError",
          calls |-> <<"trustroots", "certificate">>,
          fs |-> [f EXCEPT !.trust = TRUE],
          wcred |-> 0, wdods |-> 0, tr |-> "ok", cert |-> "fail"]
    ELSE [ret |-> "True", raised |-> "",
          calls |-> <<"trustroots", "certificate">>,
          fs |-> [f EXCEPT !.trust = TRUE, !.cred = issued],
          wcred |-> 1, wdods |-> 0, tr |-> "ok", cert |-> "ok"]

\* main with `except Exception` in place of `except KeyError`, and no return
\* in the handler: every failure of setup_credentials is swallowed.
dl_main_setup_credentials_swallow ==
    /\ script = "downloader" /\ entry = "main" /\ pc = "start"
    /\ \E trOk \in BOOLEAN, certOk \in BOOLEAN, issued \in Certs :
          LET r == dl_setup_credentials(env, fs, now, trOk, certOk, issued) IN
          /\ ApplySetup(r)
          /\ pc' = "setup_done"
          /\ err' = err
    /\ UNCHANGED <<script, entry, now, env, fs0, resp, force, min_lifetime,
                   tokRet, validRet>>

\* lines 133-137: main calls setup_credentials(); a KeyError is caught, a
\* message printed and main returns; any other exception leaves main.
dl_main_setup_credentials ==
    /\ script = "downloader" /\ entry = "main" /\ pc = "start"
    /\ \E trOk \in BOOLEAN, certOk \in BOOLEAN, issued \in Certs :
          LET r == dl_setup_credentials(env, fs, now, trOk, certOk, issued) IN
          /\ ApplySetup(r)
          /\ IF r.raised = "KeyError"
             THEN pc' = "aborted" /\ err' = "KeyError"
             ELSE IF r.raised # ""
             THEN pc' = "crashed" /\ err' = r.raised
             ELSE pc' = "setup_done" /\ err' = err
    /\ UNCHANGED <<script, entry, now, env, fs0, resp, force, min_lifetime,
                   tokRet, validRet>>

\* lines 139-143: requests.get(file_url, cert=...) and write the content.
dl_main_download ==
    /\ script = "downloader" /\ entry = "main" /\ pc = "setup_done"
    /\ calls' = Append(calls, "data")
    /\ pc' = "done"
    /\ UNCHANGED <<script, entry, now, env, fs, fs0, resp, svc, writes, force,
                   min_lifetime, tokRet, setupRet, validRet, err>>

\* A caller calls the downloader's setup_credentials() itself.
dl_call_setup_credentials ==
    /\ script = "downloader" /\ entry = "setup_credentials" /\ pc = "start"
    /\ \E trOk \in BOOLEAN, certOk \in BOOLEAN, issued \in Certs :
          LET r == dl_setup_credentials(env, fs, now, trOk, certOk, issued) IN
          /\ ApplySetup(r)
          /\ IF r.raised # ""
             THEN pc' = "crashed" /\ err' = r.raised
             ELSE pc' = "returned" /\ err' = err
    /\ UNCHANGED <<script, entry, now, env, fs0, resp, force, min_lifetime,
                   tokRet, validRet>>

\* A caller calls the downloader's cert_is_valid(path, min_lifetime).
dl_call_cert_is_valid ==
    /\ script = "downloader" /\ entry = "cert_is_valid" /\ pc = "start"
    /\ \E m \in Lifetimes :
          /\ min_lifetime' = m
          /\ validRet' = IF dl_cert_is_valid(fs.cred, now, m) THEN "True" ELSE "False"
    /\ pc' = "returned"
    /\ UNCHANGED <<script, entry, now, env, fs, fs0, calls, resp, svc, writes,
                   force, tokRet, setupRet, err>>

----------------------------------------------------------------------------
(* The invocation *)

NoFiles == [cache |-> AbsentFile, cred |-> MissingCred, dods |-> "absent",
            trust |-> FALSE]

\* Any state of the files the script at hand reads; any clock; any environment.
Init ==
    /\ script \in {"token", "cert", "downloader"}
    /\ entry \in (IF script = "token" THEN {"main"}
                  ELSE {"main", "setup_credentials", "cert_is_valid"})
    /\ pc = "start"
    /\ now \in Times
    /\ env \in (IF script = "token" THEN {[user |-> TRUE, pass |-> TRUE]}
                ELSE [user : BOOLEAN, pass : BOOLEAN])
    /\ fs \in (IF script = "token"
               THEN {[NoFiles EXCEPT !.cache = c] : c \in CacheFiles}
               ELSE {[NoFiles EXCEPT !.cred = c, !.dods = d, !.trust = t] :
                        c \in CredFiles, d \in DodsFiles, t \in BOOLEAN})
    /\ fs0 = fs
    /\ calls = <<>>
    /\ resp = NoResp
    /\ svc = [tr |-> "none", cert |-> "none"]
    /\ writes = [cache |-> 0, cred |-> 0, dods |-> 0]
    /\ force = FALSE
    /\ min_lifetime = 0
    /\ tokRet = NoTokRet
    /\ setupRet = "none"
    /\ validRet = "none"
    /\ err = ""

Next ==
    \/ token_main_get_token
    \/ token_main_open_dataset
    \/ token_main_abort
    \/ cert_import
    \/ cert_main_setup_credentials
    \/ cert_main_get_nc_dataset
    \/ cert_call_setup_credentials
    \/ cert_call_cert_is_valid
    \/ dl_main_setup_credentials
    \/ dl_main_download
    \/ dl_call_setup_credentials
    \/ dl_call_cert_is_valid

Spec == Init /\ [][Next]_vars

----------------------------------------------------------------------------
(* Vocabulary of the properties *)

Count(seq, x) == Cardinality({i \in 1..Len(seq) : seq[i] = x})

CertFlow == script \in {"cert", "downloader"}
EnvMissing == ~(env.user /\ env.pass)

\* "In date at margin m", stated on the certificate's validity window.
InDate(f, n, m) == f.kind = "cert" /\ f.nvb <= n /\ n < f.nva - m

\* get_token asked the token service in this invocation.
Refreshed == Count(calls, "POST token") > 0

\* The cache file holds a token that load_cached_token can read back.
Readable(f) == f.json = "object" /\ f.exp.fmt = "iso"

----------------------------------------------------------------------------
(* C1 *)

\* C1: when get_token refreshes and the token service answers 200, the pair
\* it returns is the access_token and the parsed expires of that new answer.
C1_RefreshReturnsNewPair ==
    (script = "token" /\ tokRet.called /\ Refreshed /\ resp.status = HTTP_OK)
        => /\ tokRet.token = resp.body.tok
           /\ tokRet.expires = strptime(resp.body.exp)

----------------------------------------------------------------------------
(* C2 *)

\* C2: when get_token refreshes and the token service answers anything but
\* 200, the token it returns is absent or empty, whatever the cache held.
C2_FailedRefreshReturnsNoToken ==
    (script = "token" /\ tokRet.called /\ Refreshed /\ resp.status # HTTP_OK)
        => ~Truthy(tokRet.token)

----------------------------------------------------------------------------
(* C3 *)

\* C3: reading the cache never raises: whatever the cache file holds (absent,
\* not JSON, JSON without access_token or expires, an expires that does not
\* parse), get_token returns normally, and when the file holds no readable
\* token it has gone on to ask the token service, as with no cache at all.
C3_CacheReadNeverRaises ==
    (script = "token" /\ pc # "start")
        => /\ tokRet.called
           /\ (~(Readable(fs0.cache) /\ Truthy(fs0.cache.tok)) => Refreshed)

----------------------------------------------------------------------------
(* C4 *)

\* C4: get_token reuses the cached token (no request, token returned
\* unchanged) exactly when the cache holds a token whose expires is strictly
\* after now; in every other case it makes exactly one token request. Stated
\* here for a cache file that is absent or readable.
C4_ReuseExactlyWhenStrictlyFuture ==
    (script = "token" /\ pc # "start"
        /\ (fs0.cache = AbsentFile \/ Readable(fs0.cache)))
        => LET c == fs0.cache
               usable == Readable(c) /\ Truthy(c.tok) /\ strptime(c.exp) > now
           IN  /\ usable => /\ Count(calls, "POST token") = 0
                            /\ tokRet.token = c.tok
                            /\ tokRet.expires = strptime(c.exp)
               /\ ~usable => Count(calls, "POST token") = 1

----------------------------------------------------------------------------
(* C5 *)

\* C5: within one invocation the cache file is written if and only if a
\* refresh was attempted and answered 200; the file then holds exactly the
\* answer's body; otherwise the file is as it was when the invocation began.
C5_CacheWrittenOnlyOn200 ==
    script = "token"
        => /\ writes.cache <= 1
           /\ writes.cache = 1 <=> (Refreshed /\ resp.status = HTTP_OK)
           /\ writes.cache = 1 => fs.cache = resp.body
           /\ writes.cache = 0 => fs.cache = fs0.cache

\* An expired cached token is overwritten by the body of a 200 answer.
C5_Witness ==
    /\ script = "token" /\ pc = "got_token"
    /\ Readable(fs0.cache) /\ Truthy(fs0.cache.tok)
    /\ writes.cache = 1 /\ resp.status = HTTP_OK
    /\ fs.cache = resp.body /\ fs.cache # fs0.cache /\ resp.body.extra

----------------------------------------------------------------------------
(* C6 *)

\* C6: cert_is_valid returns a boolean and never raises; it is False for a
\* missing or unparsable file, and otherwise True exactly when
\* not_valid_before <= now and now < not_valid_after - min_lifetime; the two
\* copies of the function agree.
C6_CertIsValidWindow ==
    (CertFlow /\ entry = "cert_is_valid" /\ pc = "returned")
        => /\ err = ""
           /\ validRet = (IF InDate(fs.cred, now, min_lifetime) THEN "True"
                          ELSE "False")
           /\ cert_is_valid(fs.cred, now, min_lifetime)
                 = dl_cert_is_valid(fs.cred, now, min_lifetime)

\* A certificate found valid with a positive margin.
C6_Witness ==
    /\ CertFlow /\ entry = "cert_is_valid" /\ pc = "returned"
    /\ fs.cred.kind = "cert" /\ min_lifetime > 0 /\ validRet = "True"

----------------------------------------------------------------------------
(* C7 *)

\* C7: setup_credentials returns False (Reused) without contacting either
\* service exactly when force is false, the .dodsrc marker exists and the
\* credential file is in date at margin 0; in every other case it contacts
\* the trust-root service, then the certificate service, overwrites the
\* credential file, writes the derived-config file and returns True. Stated
\* here for the calls that returned (both services answered).
C7_ReuseExactlyWhenMarkerAndInDate ==
    (CertFlow /\ entry \in {"main", "setup_credentials"} /\ setupRet # "none")
        => LET reuse == ~force /\ fs0.dods # "absent" /\ InDate(fs0.cred, now, 0)
           IN  /\ reuse => /\ setupRet = "False"
                           /\ Count(calls, "trustroots") = 0
                           /\ Count(calls, "certificate") = 0
               /\ ~reuse => /\ setupRet = "True"
                            /\ Len(calls) >= 2
                            /\ calls[1] = "trustroots"
                            /\ calls[2] = "certificate"
                            /\ writes.cred = 1
                            /\ writes.dods = 1
                            /\ fs.dods = "written"

----------------------------------------------------------------------------
(* C8 *)

\* C8 as stated: in the certificate flows, whenever the username or password
\* variable is absent the invocation ends with the missing-credentials error
\* before any network call, whatever the credential and marker files hold.
C8_MissingEnvAbortsBeforeNetwork ==
    (CertFlow /\ entry = "main" /\ EnvMissing)
        => /\ calls = <<>>
           /\ pc # "start" => (pc \in {"crashed", "aborted"} /\ err = "KeyError")

\* C8 as amended: with a variable absent, the certificate script always ends
\* with KeyError before any network call; the downloader does so when the
\* credential file is not in date at margin 0, and when it is in date the
\* downloader never reads the variables, raises nothing and goes on to the
\* data request.
C8_MissingEnvAbortsWhenCredentialsNeeded ==
    (CertFlow /\ entry = "main" /\ EnvMissing)
        => IF script = "cert" \/ ~InDate(fs0.cred, now, 0)
           THEN /\ calls = <<>>
                /\ fs = fs0
                /\ pc # "start" => (pc \in {"crashed", "aborted"} /\ err = "KeyError")
           ELSE /\ err = ""
                /\ pc \in {"start", "setup_done", "done"}
                /\ Count(calls, "trustroots") = 0
                /\ Count(calls, "certificate") = 0
                /\ pc = "done" => calls = <<"data">>

\* The downloader, a variable absent and no certificate in date: aborted.
C8_Witness ==
    /\ script = "downloader" /\ entry = "main" /\ EnvMissing
    /\ ~InDate(fs0.cred, now, 0)
    /\ pc = "aborted" /\ err = "KeyError" /\ calls = <<>>

----------------------------------------------------------------------------
(* C9 *)

\* C9: in the token script, an invocation in which the token endpoint
\* answered non-200 never issues the data GET.
C9_NoDataRequestAfterFailedIssuance ==
    (script = "token" /\ Refreshed /\ resp.status # HTTP_OK)
        => Count(calls, "GET data") = 0

----------------------------------------------------------------------------
(* C10 *)

\* C10: in the certificate flows a failure of the trust-root fetch or of the
\* certificate issuance ends the invocation with that exception: neither
\* service is asked twice, the certificate service is not asked after a
\* trust-root failure, neither the credential file nor the derived-config
\* file is written, and no data request is issued.
C10_ServiceFailureIsFatal ==
    (CertFlow /\ (svc.tr = "fail" \/ svc.cert = "fail"))
        => /\ pc = "crashed" /\ err = "ServiceError" /\ setupRet = "none"
           /\ Count(calls, "trustroots") = 1
           /\ Count(calls, "certificate") <= 1
           /\ svc.tr = "fail" => Count(calls, "certificate") = 0
           /\ writes.cred = 0 /\ writes.dods = 0
           /\ fs.cred = fs0.cred /\ fs.dods = fs0.dods
           /\ Count(calls, "data") = 0

\* A run of a script in which the certificate service failed after the trust
\* roots were fetched.
C10_Witness ==
    /\ CertFlow /\ entry = "main"
    /\ svc.tr = "ok" /\ svc.cert = "fail"
    /\ pc = "crashed" /\ calls = <<"trustroots", "certificate">>

====
